---------------------------- MODULE Spec2Model ----------------------------
(***************************************************************************)
(* Model of the hoctap-api user repository (database/user.go) over the     *)
(* `users` table created by createTables (database/connection.go).         *)
(*                                                                         *)
(* Every SQL statement is one atomic step.  A repository method is the     *)
(* sequence of its statements; the statements of different callers         *)
(* interleave freely under Spec (one goroutine per HTTP request, no        *)
(* transactions) and a single caller runs them back to back under SeqSpec. *)
(***************************************************************************)
EXTENDS Integers, Sequences, FiniteSets, TLC

\* ------------------------------------------------------------- bounds
\* The highest AUTO_INCREMENT value at which a CreateUser call or the inserts
\* of a SeedUsers run may still start (a run that started finishes its
\* inserts); also the highest id callers ask for.
MaxId == 2
\* Seconds the storage clock (CURRENT_TIMESTAMP) can advance.
MaxTime == 1

\* ------------------------------------------------------------- domains
Procs == {"c1", "c2"}
\* The one caller of the sequential specification.
SeqClient == "c1"

\* The rows SeedUsers inserts, in order.
initialUsers ==
    << [Name |-> "John Doe",      Email |-> "john@example.com"],
       [Name |-> "Jane Smith",    Email |-> "jane@example.com"],
       [Name |-> "Alice Johnson", Email |-> "alice@example.com"] >>

\* What callers pass in: a seed name and another one; a seed email, the
\* same email in another letter case, and an email no seed row has.
Names  == {"John Doe", "Ann"}
Emails == {"john@example.com", "JOHN@example.com", "ann@x.com"}
Ids    == 1..MaxId

\* utf8mb4_unicode_ci compares text without regard to letter case: the
\* collation key of an email.  Stored text keeps its case.
Collate(e) == IF e = "JOHN@example.com" THEN "john@example.com" ELSE e

\* WHERE email = ? and the UNIQUE index both compare collation keys.
SameEmail(a, b) == Collate(a) = Collate(b)

\* ------------------------------------------------------------- values
\* A User as rows.Scan fills it; NoUser is the nil *User.
NoUser == [id |-> 0, name |-> "", email |-> "", created_at |-> 0, updated_at |-> 0]

\* error values, by the text fmt.Errorf formats.  cause tells a storage
\* I/O failure ("io") from a duplicate-key rejection ("dup").
NoErr == [msg |-> "nil", arg |-> "", cause |-> "none"]
Err(m, a, c) == [msg |-> m, arg |-> a, cause |-> c]

ErrNotFound(id)   == Err("user with ID %d not found", ToString(id), "none")
ErrExists(email)  == Err("user with email '%s' already exists", email, "none")

\* The failure classes of the repository's interface.
Kind(err) ==
    CASE err.msg = "nil"                                   -> "ok"
      [] err.msg = "user with ID %d not found"             -> "NotFoundError"
      [] err.msg = "user with email '%s' already exists"   -> "ConflictError"
      [] OTHER                                             -> "QueryError"

NoRes == [err |-> NoErr, user |-> NoUser, users |-> << >>, count |-> 0]
ResErr(e)   == [NoRes EXCEPT !.err = e]
ResUser(u)  == [NoRes EXCEPT !.user = u]

\* A call: the method and its arguments (for create, id becomes the
\* LastInsertId), the index i of the initial user SeedUsers is at, the
\* result, and for the sequential caller the table (pre) and the clock (t0)
\* the call started from.
NoCall == [op |-> "none", id |-> 0, name |-> "", email |-> "", i |-> 0,
           res |-> NoRes, pre |-> {}, t0 |-> 0]

\* func main (connection.go 356-449): init, the phase it is in ("init" before
\* InitDB returned, "seed" until SeedUsers returned, "serving" once the signal
\* goroutine runs and ListenAndServe accepts requests, "exited"); init, what
\* InitDB returned; db, the package variable DB; closes, the calls of CloseDB
\* made; notify, whether signal.Notify has been called; served, whether a
\* handler has been entered.
NoMain == [phase |-> "init", init |-> "none", db |-> "nil", closes |-> 0,
           notify |-> FALSE, served |-> FALSE]

\* The process once ListenAndServe accepts requests.
Serving == [NoMain EXCEPT !.phase = "serving", !.init = "ok", !.db = "open",
                          !.notify = TRUE]

\* An HTTP request to /api/users: the handler (op), the {id} of the path, and
\* the body: whether it decodes as JSON, and the name and email it carries.
NoReq == [op |-> "none", id |-> 0, name |-> "", email |-> "", body |-> "json"]

\* A handler's frame: the request it serves and the status it has written
\* (0: none yet).
NoResp == [req |-> NoReq, status |-> 0]

VARIABLES
    users,      \* the rows of table users
    nextId,     \* the table's AUTO_INCREMENT counter
    now,        \* the storage clock, in seconds
    pc,         \* per caller: the statement it executes next, or "idle"
    call,       \* per caller: the call in progress, or its last finished call
    hist,       \* sequential caller: what it keeps of the call before call[SeqClient]
    main,       \* the process: how far func main has come, the shared handle
    resp        \* per caller: the HTTP request its handler serves and the status written

vars == << users, nextId, now, pc, call, hist, main, resp >>


\* ------------------------------------------------------------- statements
\* SELECT ... FROM users WHERE id = ?
SelectByID(tbl, id) == {u \in tbl : u.id = id}

\* GetUserByID: QueryRow(...).Scan; sql.ErrNoRows is the not-found error,
\* any other failure is wrapped as "failed to get user".
GetUserByID(tbl, id, io) ==
    IF io THEN ResErr(Err("failed to get user: %v", "", "io"))
    ELSE IF SelectByID(tbl, id) = {} THEN ResErr(ErrNotFound(id))
    ELSE ResUser(CHOOSE u \in SelectByID(tbl, id) : TRUE)

\* Mutant of emailExists: the probe asks for more than one holder.
emailExists_moreThanOne(tbl, email) ==
    Cardinality({u \in tbl : SameEmail(u.email, email)}) > 1

\* SELECT COUNT(*) FROM users WHERE email = ?  -> count > 0
emailExists(tbl, email) ==
    Cardinality({u \in tbl : SameEmail(u.email, email)}) > 0

\* Mutant of emailExistsForOtherUser: the probe forgets AND id != ?.
emailExistsForOtherUser_anyUser(tbl, email, userID) ==
    Cardinality({u \in tbl : SameEmail(u.email, email)}) > 0

\* SELECT COUNT(*) FROM users WHERE email = ? AND id != ?  -> count > 0
emailExistsForOtherUser(tbl, email, userID) ==
    Cardinality({u \in tbl : SameEmail(u.email, email) /\ u.id # userID}) > 0

\* Mutant of GetUsersCount: SELECT COUNT(DISTINCT name).
GetUsersCount_distinctNames(tbl) == Cardinality({u.name : u \in tbl})

\* SELECT COUNT(*) FROM users
GetUsersCount(tbl) == Cardinality(tbl)

\* Mutant of InsertRow: the email is stored folded to its collation key.
InsertRow_folded(id, name, email, t) ==
    [id |-> id, name |-> name, email |-> Collate(email),
     created_at |-> t, updated_at |-> t]

\* Mutant of InsertRow: updated_at has no DEFAULT CURRENT_TIMESTAMP and stays
\* the zero timestamp until the first UPDATE.
InsertRow_noUpdatedAt(id, name, email, t) ==
    [id |-> id, name |-> name, email |-> email, created_at |-> t, updated_at |-> 0]

\* The row INSERT INTO users (name, email) makes: id from AUTO_INCREMENT,
\* both timestamps DEFAULT CURRENT_TIMESTAMP of the one statement.
InsertRow(id, name, email, t) ==
    [id |-> id, name |-> name, email |-> email, created_at |-> t, updated_at |-> t]

\* Mutant of UniqueViolation: the email column has no UNIQUE index.
UniqueViolation_noIndex(tbl, id, email) == FALSE

\* Mutant of UniqueViolation: the UNIQUE index compares emails byte by byte
\* (a binary collation) while the probes compare by the table's collation.
UniqueViolation_binary(tbl, id, email) ==
    \E u \in tbl : u.id # id /\ u.email = email

\* email ... UNIQUE: the key the statement would write is held by another row.
UniqueViolation(tbl, id, email) ==
    \E u \in tbl : u.id # id /\ SameEmail(u.email, email)

\* Mutant of UpdateRow: updated_at is not written by the UPDATE.
UpdateRow_staleUpdatedAt(u, name, email, t) ==
    [u EXCEPT !.name = name, !.email = email]

\* UPDATE users SET name = ?, email = ?, updated_at = CURRENT_TIMESTAMP
UpdateRow(u, name, email, t) ==
    [u EXCEPT !.name = name, !.email = email, !.updated_at = t]

\* Mutant of UpdateUsers: the UPDATE has no WHERE clause.
UpdateUsers_noWhere(tbl, id, name, email, t) ==
    {UpdateRow(u, name, email, t) : u \in tbl}

\* Mutant of UpdateUsers: the statement is an upsert (INSERT ... ON DUPLICATE
\* KEY UPDATE with the id), which writes the row when there is none.
UpdateUsers_upsert(tbl, id, name, email, t) ==
    IF SelectByID(tbl, id) = {} THEN tbl \cup {InsertRow(id, name, email, t)}
    ELSE {IF u.id = id THEN UpdateRow(u, name, email, t) ELSE u : u \in tbl}

\* ... WHERE id = ?
UpdateUsers(tbl, id, name, email, t) ==
    {IF u.id = id THEN UpdateRow(u, name, email, t) ELSE u : u \in tbl}

\* Mutant of DeleteRows: the row is flagged, not removed (a soft delete).
DeleteRows_soft(tbl, id) == tbl

\* DELETE FROM users WHERE id = ?
DeleteRows(tbl, id) == {u \in tbl : u.id # id}

\* result.RowsAffected() of the DELETE
RowsAffected(tbl, id) == Cardinality(SelectByID(tbl, id))

\* All orders of the rows of tbl.
RECURSIVE Perms(_)
Perms(S) ==
    IF S = {} THEN { << >> }
    ELSE UNION { {<<u>> \o s : s \in Perms(S \ {u})} : u \in S }

\* ORDER BY created_at DESC; rows of equal created_at come in any order.
OrderedDesc(s) ==
    \A i \in 1..Len(s) : \A j \in 1..Len(s) :
        i < j => s[i].created_at >= s[j].created_at

\* The slices GetAllUsers can return for table tbl.
GetAllUsers(tbl) == {s \in Perms(tbl) : OrderedDesc(s)}

\* ------------------------------------------------------------- calls
Requests ==
    {[op |-> "create", id |-> 0, name |-> n, email |-> e] : n \in Names, e \in Emails}
    \cup {[op |-> "update", id |-> i, name |-> n, email |-> e] :
              i \in Ids, n \in Names, e \in Emails}
    \cup {[op |-> o, id |-> i, name |-> "", email |-> ""] :
              o \in {"get", "delete"}, i \in Ids}
    \cup {[op |-> o, id |-> 0, name |-> "", email |-> ""] :
              o \in {"list", "count", "seed"}}

\* The first statement of each method.
FirstPc(op) ==
    CASE op = "create" -> "c_emailExists"
      [] op = "update" -> "u_get"
      [] op = "delete" -> "d_get"
      [] op = "get"    -> "g_get"
      [] op = "list"   -> "l_query"
      [] op = "count"  -> "n_count"
      [] op = "seed"   -> "s_count"

Init ==
    /\ users = {}
    /\ nextId = 1
    /\ now = 0
    /\ pc = [p \in Procs |-> "idle"]
    /\ call = [p \in Procs |-> NoCall]
    /\ hist = NoCall
    /\ main = Serving
    /\ resp = [p \in Procs |-> NoResp]

\* The storage clock advances.
Tick ==
    /\ now < MaxTime
    /\ now' = now + 1
    /\ UNCHANGED << users, nextId, pc, call, hist, main, resp >>

\* What the sequential caller keeps of the call it finished before the
\* present one, when the present call is a get or a seed (the calls whose
\* result is compared with the call before): a create, delete or seed that
\* succeeded (its pre-state only as empty or not), nothing otherwise.
FollowOps == {"get", "seed"}
HistOps == {"create", "delete", "seed"}
Remember(c) ==
    IF c.op \in HistOps /\ c.res.err = NoErr
    THEN [c EXCEPT !.pre = IF c.pre = {} THEN {} ELSE {NoUser}, !.t0 = 0]
    ELSE NoCall

\* Caller p enters the repository method of request r.  observe: the caller
\* is the sequential one, whose calls are recorded with the table they
\* started from and the call before them.
Call(p, r, observe) ==
    /\ pc[p] = "idle"
    /\ r.op = "create" => nextId <= MaxId
    /\ pc' = [pc EXCEPT ![p] = FirstPc(r.op)]
    /\ call' = [call EXCEPT ![p] =
                  [op |-> r.op, id |-> r.id, name |-> r.name, email |-> r.email,
                   i |-> 0, res |-> NoRes,
                   pre |-> IF observe THEN users ELSE {},
                   t0 |-> IF observe THEN now ELSE 0]]
    /\ hist' = IF observe /\ r.op \in FollowOps THEN Remember(call[p]) ELSE NoCall
    /\ UNCHANGED << users, nextId, now >>

\* The method of caller p returns res.
Return(p, c, res) ==
    /\ pc' = [pc EXCEPT ![p] = "idle"]
    /\ call' = [call EXCEPT ![p] = [c EXCEPT !.res = res]]

\* Caller p goes on to statement next of its method.
Goto(p, c, next) ==
    /\ pc' = [pc EXCEPT ![p] = next]
    /\ call' = [call EXCEPT ![p] = c]

\* ---- GetUserByID (user.go 56-72)
GetUserByIDStep(p, F) ==
    /\ pc[p] = "g_get"
    /\ \E io \in F : Return(p, call[p], GetUserByID(users, call[p].id, io))
    /\ UNCHANGED << users, nextId, now, hist, main, resp >>

\* ---- GetAllUsers (user.go 29-53)
GetAllUsersStep(p, F) ==
    /\ pc[p] = "l_query"
    /\ \E io \in F :
         IF io THEN Return(p, call[p], ResErr(Err("failed to query users: %v", "", "io")))
         ELSE \E s \in GetAllUsers(users) :
                 Return(p, call[p], [NoRes EXCEPT !.users = s])
    /\ UNCHANGED << users, nextId, now, hist, main, resp >>

\* ---- GetUsersCount (user.go 151-161)
GetUsersCountStep(p, F) ==
    /\ pc[p] = "n_count"
    /\ \E io \in F :
         IF io THEN Return(p, call[p], ResErr(Err("failed to count users: %v", "", "io")))
         ELSE Return(p, call[p], [NoRes EXCEPT !.count = GetUsersCount(users)])
    /\ UNCHANGED << users, nextId, now, hist, main, resp >>

\* ---- CreateUser (user.go 75-97), also as called by SeedUsers
\* Mutant of CreateReturn: SeedUsers logs a failed CreateUser and goes on to
\* the next initial user.
CreateReturn_continue(p, c, res) ==
    IF c.op = "create" THEN Return(p, c, res)
    ELSE IF c.i < Len(initialUsers)
         THEN Goto(p, [c EXCEPT !.i = c.i + 1, !.id = 0,
                                !.name = initialUsers[c.i + 1].Name,
                                !.email = initialUsers[c.i + 1].Email],
                   "c_emailExists")
    ELSE Return(p, c, NoRes)

\* CreateUser returns res: to its caller, or to the loop of SeedUsers, which
\* stops at the first error and otherwise goes on to the next initial user.
CreateReturn(p, c, res) ==
    IF c.op = "create" THEN Return(p, c, res)
    ELSE IF res.err # NoErr
         THEN Return(p, c, ResErr(Err("failed to seed user %s: %v", res.err.msg,
                                      res.err.cause)))
    ELSE IF c.i < Len(initialUsers)
         THEN Goto(p, [c EXCEPT !.i = c.i + 1, !.id = 0,
                                !.name = initialUsers[c.i + 1].Name,
                                !.email = initialUsers[c.i + 1].Email],
                   "c_emailExists")
    ELSE Return(p, c, NoRes)

CreateUser_emailExists(p, F) ==
    /\ pc[p] = "c_emailExists"
    /\ \E io \in F :
         IF io THEN CreateReturn(p, call[p],
                        ResErr(Err("failed to check email existence: %v", "", "io")))
         ELSE IF emailExists(users, call[p].email)
              THEN CreateReturn(p, call[p], ResErr(ErrExists(call[p].email)))
         ELSE Goto(p, call[p], "c_insert")
    /\ UNCHANGED << users, nextId, now, hist, main, resp >>

CreateUser_insert(p, F) ==
    /\ pc[p] = "c_insert"
    /\ call[p].op = "seed" \/ nextId <= MaxId
    /\ \E io \in F :
         IF io
         THEN /\ CreateReturn(p, call[p], ResErr(Err("failed to create user: %v", "", "io")))
              /\ UNCHANGED << users, nextId >>
         ELSE IF UniqueViolation(users, nextId, call[p].email)
         THEN /\ CreateReturn(p, call[p], ResErr(Err("failed to create user: %v", "", "dup")))
              /\ nextId' = nextId + 1
              /\ UNCHANGED users
         ELSE /\ users' = users \cup {InsertRow(nextId, call[p].name, call[p].email, now)}
              /\ nextId' = nextId + 1
              /\ Goto(p, [call[p] EXCEPT !.id = nextId], "c_get")
    /\ UNCHANGED << now, hist, main, resp >>

\* Mutant of CreateUser_get: the user is built from the arguments and the
\* LastInsertId, without reading the row back.
CreateUser_get_noReread(p, F) ==
    /\ pc[p] = "c_get"
    /\ \E io \in F :
         CreateReturn(p, call[p],
             IF io THEN ResErr(Err("failed to get user: %v", "", "io"))
             ELSE ResUser([NoUser EXCEPT !.id = call[p].id, !.name = call[p].name,
                                         !.email = call[p].email]))
    /\ UNCHANGED << users, nextId, now, hist, main, resp >>

CreateUser_get(p, F) ==
    /\ pc[p] = "c_get"
    /\ \E io \in F :
         CreateReturn(p, call[p], GetUserByID(users, call[p].id, io))
    /\ UNCHANGED << users, nextId, now, hist, main, resp >>

\* ---- UpdateUser (user.go 100-122)
\* Mutant of UpdateUser_get: the existence check is skipped.
UpdateUser_get_unchecked(p, F) ==
    /\ pc[p] = "u_get"
    /\ \E io \in F :
         IF io THEN Return(p, call[p], GetUserByID(users, call[p].id, io))
         ELSE Goto(p, call[p], "u_emailExists")
    /\ UNCHANGED << users, nextId, now, hist, main, resp >>

UpdateUser_get(p, F) ==
    /\ pc[p] = "u_get"
    /\ \E io \in F :
         LET r == GetUserByID(users, call[p].id, io) IN
         IF r.err # NoErr THEN Return(p, call[p], r)
         ELSE Goto(p, call[p], "u_emailExists")
    /\ UNCHANGED << users, nextId, now, hist, main, resp >>

\* Mutant of UpdateUser_emailExists: the name is written before the email is
\* probed, so a call that reports the conflict has changed the row.
UpdateUser_emailExists_afterWrite(p, F) ==
    /\ pc[p] = "u_emailExists"
    /\ \E io \in F :
         IF io THEN /\ Return(p, call[p],
                         ResErr(Err("failed to check email existence: %v", "", "io")))
                    /\ UNCHANGED users
         ELSE IF emailExistsForOtherUser(users, call[p].email, call[p].id)
              THEN /\ users' = {IF u.id = call[p].id
                                 THEN [u EXCEPT !.name = call[p].name] ELSE u : u \in users}
                   /\ Return(p, call[p], ResErr(ErrExists(call[p].email)))
         ELSE /\ Goto(p, call[p], "u_exec")
              /\ UNCHANGED users
    /\ UNCHANGED << nextId, now, hist, main, resp >>

UpdateUser_emailExists(p, F) ==
    /\ pc[p] = "u_emailExists"
    /\ \E io \in F :
         IF io THEN Return(p, call[p],
                        ResErr(Err("failed to check email existence: %v", "", "io")))
         ELSE IF emailExistsForOtherUser(users, call[p].email, call[p].id)
              THEN Return(p, call[p], ResErr(ErrExists(call[p].email)))
         ELSE Goto(p, call[p], "u_exec")
    /\ UNCHANGED << users, nextId, now, hist, main, resp >>

UpdateUser_exec(p, F) ==
    /\ pc[p] = "u_exec"
    /\ \E io \in F :
         IF io
         THEN /\ Return(p, call[p], ResErr(Err("failed to update user: %v", "", "io")))
              /\ UNCHANGED users
         ELSE IF SelectByID(users, call[p].id) # {}
                 /\ UniqueViolation(users, call[p].id, call[p].email)
         THEN /\ Return(p, call[p], ResErr(Err("failed to update user: %v", "", "dup")))
              /\ UNCHANGED users
         ELSE /\ users' = UpdateUsers(users, call[p].id, call[p].name, call[p].email, now)
              /\ Goto(p, call[p], "u_reget")
    /\ UNCHANGED << nextId, now, hist, main, resp >>

UpdateUser_reget(p, F) ==
    /\ pc[p] = "u_reget"
    /\ \E io \in F : Return(p, call[p], GetUserByID(users, call[p].id, io))
    /\ UNCHANGED << users, nextId, now, hist, main, resp >>

\* ---- DeleteUser (user.go 125-148)
DeleteUser_get(p, F) ==
    /\ pc[p] = "d_get"
    /\ \E io \in F :
         LET r == GetUserByID(users, call[p].id, io) IN
         IF r.err # NoErr THEN Return(p, call[p], r)
         ELSE Goto(p, call[p], "d_exec")
    /\ UNCHANGED << users, nextId, now, hist, main, resp >>

\* Mutant of DeleteUser_exec: the result's RowsAffected is not looked at.
DeleteUser_exec_noRowsCheck(p, F) ==
    /\ pc[p] = "d_exec"
    /\ \E io \in F :
         IF io
         THEN /\ Return(p, call[p], ResErr(Err("failed to delete user: %v", "", "io")))
              /\ UNCHANGED users
         ELSE /\ users' = DeleteRows(users, call[p].id)
              /\ Return(p, call[p], NoRes)
    /\ UNCHANGED << nextId, now, hist, main, resp >>

DeleteUser_exec(p, F) ==
    /\ pc[p] = "d_exec"
    /\ \E io \in F :
         IF io
         THEN /\ Return(p, call[p], ResErr(Err("failed to delete user: %v", "", "io")))
              /\ UNCHANGED users
         ELSE /\ users' = DeleteRows(users, call[p].id)
              /\ IF RowsAffected(users, call[p].id) = 0
                 THEN Return(p, call[p], ResErr(ErrNotFound(call[p].id)))
                 ELSE Return(p, call[p], NoRes)
    /\ UNCHANGED << nextId, now, hist, main, resp >>

\* ---- SeedUsers (user.go 190-219)
\* Mutant of SeedUsers_count: the table is seeded whatever the count.
SeedUsers_count_always(p, F) ==
    /\ pc[p] = "s_count"
    /\ \E io \in F :
         IF io THEN Return(p, call[p], ResErr(Err("failed to count users: %v", "", "io")))
         ELSE Goto(p, [call[p] EXCEPT !.i = 1,
                                      !.name = initialUsers[1].Name,
                                      !.email = initialUsers[1].Email],
                   "c_emailExists")
    /\ UNCHANGED << users, nextId, now, hist, main, resp >>

SeedUsers_count(p, F) ==
    /\ pc[p] = "s_count"
    /\ users = {} => nextId <= MaxId
    /\ \E io \in F :
         IF io THEN Return(p, call[p], ResErr(Err("failed to count users: %v", "", "io")))
         ELSE IF GetUsersCount(users) > 0 THEN Return(p, call[p], NoRes)
         ELSE Goto(p, [call[p] EXCEPT !.i = 1,
                                      !.name = initialUsers[1].Name,
                                      !.email = initialUsers[1].Email],
                   "c_emailExists")
    /\ UNCHANGED << users, nextId, now, hist, main, resp >>

\* Whether a statement fails on storage I/O: either way, or never.
Faults   == BOOLEAN
NoFaults == {FALSE}

\* The requests of concurrent callers: the three writing methods.
WriteRequests ==
    {[op |-> "create", id |-> 0, name |-> "Ann", email |-> e] : e \in Emails}
    \cup {[op |-> "update", id |-> i, name |-> "Ann", email |-> e] :
              i \in Ids, e \in Emails}
    \cup {[op |-> "delete", id |-> i, name |-> "", email |-> ""] : i \in Ids}

\* Concurrent callers of CreateUser, UpdateUser and DeleteUser.
Next ==
    \/ \E p \in Procs : \E r \in WriteRequests : Call(p, r, FALSE) /\ UNCHANGED << main, resp >>
    \/ \E p \in Procs : CreateUser_emailExists(p, NoFaults)
    \/ \E p \in Procs : CreateUser_insert(p, NoFaults)
    \/ \E p \in Procs : CreateUser_get(p, NoFaults)
    \/ \E p \in Procs : UpdateUser_get(p, NoFaults)
    \/ \E p \in Procs : UpdateUser_emailExists(p, NoFaults)
    \/ \E p \in Procs : UpdateUser_exec(p, NoFaults)
    \/ \E p \in Procs : UpdateUser_reget(p, NoFaults)
    \/ \E p \in Procs : DeleteUser_get(p, NoFaults)
    \/ \E p \in Procs : DeleteUser_exec(p, NoFaults)

\* One caller, one call at a time, of every method; statements can fail.
SeqNext ==
    \/ Tick
    \/ \E r \in Requests : Call(SeqClient, r, TRUE) /\ UNCHANGED << main, resp >>
    \/ GetUserByIDStep(SeqClient, Faults)
    \/ GetAllUsersStep(SeqClient, Faults)
    \/ GetUsersCountStep(SeqClient, Faults)
    \/ CreateUser_emailExists(SeqClient, Faults)
    \/ CreateUser_insert(SeqClient, Faults)
    \/ CreateUser_get(SeqClient, Faults)
    \/ UpdateUser_get(SeqClient, Faults)
    \/ UpdateUser_emailExists(SeqClient, Faults)
    \/ UpdateUser_exec(SeqClient, Faults)
    \/ UpdateUser_reget(SeqClient, Faults)
    \/ DeleteUser_get(SeqClient, Faults)
    \/ DeleteUser_exec(SeqClient, Faults)
    \/ SeedUsers_count(SeqClient, Faults)

\* Callers interleave statement by statement.
Spec == Init /\ [][Next]_vars

\* One caller, one call at a time.
SeqSpec == Init /\ [][SeqNext]_vars

\* ------------------------------------------------------------- handlers
\* net/http status codes the handlers write.
StatusOK == 200
StatusCreated == 201
StatusBadRequest == 400
StatusNotFound == 404
StatusConflict == 409
StatusInternalServerError == 500

\* The requests a client sends to the four handlers of /api/users[/{id}].
\* bad = "id": the {id} segment is digits that strconv.Atoi rejects (out of
\* range); bad = "json": the body does not decode; an empty name or email is
\* a body that decodes and fails the validation.
HttpRequests ==
    {[op |-> o, id |-> i, name |-> "", email |-> "", bad |-> b] :
         o \in {"get", "delete"}, i \in Ids, b \in {"none", "id"}}
    \cup {[op |-> "create", id |-> 0, name |-> n, email |-> e, bad |-> b] :
              n \in {"Ann", ""}, e \in Emails \cup {""}, b \in {"none", "json"}}
    \cup {[op |-> "update", id |-> i, name |-> n, email |-> e, bad |-> b] :
              i \in Ids, n \in {"Ann", ""}, e \in Emails \cup {""},
              b \in {"none", "id", "json"}}

\* Whether the handler answers 400 before it calls the repository: Atoi of
\* the path id fails, the body does not decode, or name or email is empty.
BadRequest(r) ==
    CASE r.op \in {"get", "delete"} -> r.bad = "id"
      [] r.op = "create" -> IF r.bad = "json" THEN TRUE ELSE "" \in {r.name, r.email}
      [] r.op = "update" -> IF r.bad \in {"id", "json"} THEN TRUE
                            ELSE "" \in {r.name, r.email}

\* getUserByIDHandler after GetUserByID returned err: any error is answered
\* with 404.
getUserByIDHandler(r, err) ==
    IF err # NoErr THEN StatusNotFound ELSE StatusOK

\* createUserHandler after CreateUser returned err: the error whose text is
\* "user with email '<the request's email>' already exists" is answered with
\* 409, any other error with 500.
createUserHandler(r, err) ==
    IF err = NoErr THEN StatusCreated
    ELSE IF err = ErrExists(r.email) THEN StatusConflict
    ELSE StatusInternalServerError

\* updateUserHandler after UpdateUser returned err.
updateUserHandler(r, err) ==
    IF err = NoErr THEN StatusOK
    ELSE IF err = ErrNotFound(r.id) THEN StatusNotFound
    ELSE IF err = ErrExists(r.email) THEN StatusConflict
    ELSE StatusInternalServerError

\* deleteUserHandler after DeleteUser returned err.
deleteUserHandler(r, err) ==
    IF err = NoErr THEN StatusOK
    ELSE IF err = ErrNotFound(r.id) THEN StatusNotFound
    ELSE StatusInternalServerError

\* The status the handler of request r writes once its repository call
\* returned err.
HandlerStatus(r, err) ==
    CASE r.op = "get"    -> getUserByIDHandler(r, err)
      [] r.op = "create" -> createUserHandler(r, err)
      [] r.op = "update" -> updateUserHandler(r, err)
      [] r.op = "delete" -> deleteUserHandler(r, err)

\* The handler of caller p has no request it has not answered.
Answered(p) == resp[p].req = NoReq \/ resp[p].status # 0

\* A handler is entered with request r: it answers 400 to a bad request
\* without calling the repository, and otherwise calls the method.
Serve(p) ==
    /\ main.phase = "serving"
    /\ pc[p] = "idle"
    /\ Answered(p)
    /\ main' = [main EXCEPT !.served = TRUE]
    /\ \E r \in HttpRequests :
         IF BadRequest(r)
         THEN /\ resp' = [resp EXCEPT ![p] = [req |-> r, status |-> StatusBadRequest]]
              /\ UNCHANGED << users, nextId, now, pc, call, hist >>
         ELSE /\ Call(p, r, FALSE)
              /\ resp' = [resp EXCEPT ![p] = [req |-> r, status |-> 0]]

\* The repository call of the handler has returned: the handler writes the
\* status.
Respond(p) ==
    /\ main.phase = "serving"
    /\ pc[p] = "idle"
    /\ ~Answered(p)
    /\ resp' = [resp EXCEPT ![p].status = HandlerStatus(resp[p].req, call[p].res.err)]
    /\ UNCHANGED << users, nextId, now, pc, call, hist, main >>

\* ------------------------------------------------------------- func main
\* What InitDB returns: nil, or the error of sql.Open, of DB.Ping or of
\* createTables.
InitOutcomes == {"ok", "open", "ping", "tables"}

\* The spec's name of an InitDB outcome.
InitKind(out) ==
    CASE out \in {"open", "ping"} -> "ConnectionError"
      [] out = "tables" -> "SchemaError"
      [] OTHER -> out

\* CloseDB: closes the handle unless it is nil.
CloseDB(m) ==
    [m EXCEPT !.closes = @ + 1, !.db = IF @ = "nil" THEN "nil" ELSE "closed"]

\* os.Exit: the process is gone and with it every goroutine's frame; the
\* table stays.  Deferred calls do not run.
Exit ==
    /\ pc' = [p \in Procs |-> "idle"]
    /\ call' = [p \in Procs |-> NoCall]
    /\ resp' = [p \in Procs |-> NoResp]
    /\ hist' = NoCall
    /\ UNCHANGED << users, nextId, now >>

\* Mutant of Main_InitDB: a failure of InitDB is logged as a warning, as the
\* failure of SeedUsers is, and main goes on.
Main_InitDB_warnOnly ==
    /\ main.phase = "init"
    /\ \E out \in InitOutcomes :
         main' = [main EXCEPT !.phase = "seed", !.init = out,
                              !.db = IF out = "open" THEN "nil" ELSE "open"]
    /\ UNCHANGED << users, nextId, now, pc, call, hist, resp >>

\* main calls InitDB; on an error log.Fatalf ends the process.
Main_InitDB ==
    /\ main.phase = "init"
    /\ \E out \in InitOutcomes :
         main' = [main EXCEPT !.phase = IF out = "ok" THEN "seed" ELSE "exited",
                              !.init = out,
                              !.db = IF out = "open" THEN "nil" ELSE "open"]
    /\ UNCHANGED << users, nextId, now, pc, call, hist, resp >>

\* main calls SeedUsers.
SeedRequest == [op |-> "seed", id |-> 0, name |-> "", email |-> ""]
Main_SeedUsers ==
    /\ main.phase = "seed"
    /\ call[SeqClient].op = "none"
    /\ Call(SeqClient, SeedRequest, FALSE)
    /\ UNCHANGED << main, resp >>

\* SeedUsers has returned (an error is only logged): main builds the router,
\* starts the goroutine that waits for SIGINT/SIGTERM and calls
\* ListenAndServe.
Main_ListenAndServe ==
    /\ main.phase = "seed"
    /\ call[SeqClient].op = "seed"
    /\ pc[SeqClient] = "idle"
    /\ main' = [main EXCEPT !.phase = "serving", !.notify = TRUE]
    /\ UNCHANGED << users, nextId, now, pc, call, hist, resp >>

\* SIGINT or SIGTERM arrives: once signal.Notify was called the goroutine
\* calls CloseDB and os.Exit(0); before that the signal ends the process.
Main_Signal ==
    /\ main.phase # "exited"
    /\ main' = IF main.notify
               THEN [CloseDB(main) EXCEPT !.phase = "exited"]
               ELSE [main EXCEPT !.phase = "exited"]
    /\ Exit

\* ListenAndServe returns its error (it cannot bind the port, or the
\* listener fails): log.Fatal ends the process with os.Exit(1).
Main_ListenFail ==
    /\ main.phase = "serving"
    /\ main' = [main EXCEPT !.phase = "exited"]
    /\ Exit

\* The process from its start: the table is empty.
MainInit ==
    /\ users = {}
    /\ nextId = 1
    /\ now = 0
    /\ pc = [p \in Procs |-> "idle"]
    /\ call = [p \in Procs |-> NoCall]
    /\ hist = NoCall
    /\ main = NoMain
    /\ resp = [p \in Procs |-> NoResp]

\* func main, then one client of the four handlers; statements can fail.
MainNext ==
    \/ Main_InitDB
    \/ Main_SeedUsers
    \/ Main_ListenAndServe
    \/ Main_Signal
    \/ Main_ListenFail
    \/ Serve(SeqClient)
    \/ Respond(SeqClient)
    \/ SeedUsers_count(SeqClient, Faults)
    \/ GetUserByIDStep(SeqClient, Faults)
    \/ CreateUser_emailExists(SeqClient, Faults)
    \/ CreateUser_insert(SeqClient, Faults)
    \/ CreateUser_get(SeqClient, Faults)
    \/ UpdateUser_get(SeqClient, Faults)
    \/ UpdateUser_emailExists(SeqClient, Faults)
    \/ UpdateUser_exec(SeqClient, Faults)
    \/ UpdateUser_reget(SeqClient, Faults)
    \/ DeleteUser_get(SeqClient, Faults)
    \/ DeleteUser_exec(SeqClient, Faults)

MainSpec == MainInit /\ [][MainNext]_vars

\* ------------------------------------------------------------- properties
\* The sequential caller's present call: finished when the caller is idle.
Cur == call[SeqClient]
Finished(op) == pc[SeqClient] = "idle" /\ Cur.op = op
\* The call met no storage I/O failure.
NoIO(c) == c.res.err.cause # "io"
\* Some row of tbl holds the email (as the table's collation compares).
Held(tbl, email) == \E u \in tbl : SameEmail(u.email, email)
\* Some row of tbl other than row id holds the email.
HeldByOther(tbl, email, id) == \E u \in tbl : u.id # id /\ SameEmail(u.email, email)
\* The row of id in tbl (there is one).
RowOf(tbl, id) == CHOOSE u \in tbl : u.id = id
HasRow(tbl, id) == \E u \in tbl : u.id = id

\* C1: under any interleaving of the statements of concurrent CreateUser,
\* UpdateUser and DeleteUser calls, no two rows of users hold the same email
\* (not even the same email in another letter case).
C1_UniqueEmail ==
    \A u \in users : \A v \in users :
        u # v => (u.id # v.id /\ u.email # v.email /\ ~SameEmail(u.email, v.email))

\* C1 witness: two callers raced on one email, both passed the probe, and
\* the UNIQUE index rejected the second write.
C1_Witness ==
    \E p \in Procs : \E q \in Procs :
        /\ p # q
        /\ pc[p] = "idle" /\ call[p].op = "create" /\ call[p].res.err.cause = "dup"
        /\ pc[q] = "idle" /\ call[q].op = "create" /\ call[q].res.err = NoErr
        /\ SameEmail(call[p].email, call[q].email)

\* C2: a CreateUser call that starts on a table where no row holds the email
\* and meets no storage failure returns a user with the given name and
\* email, a positive id no row had before, and created_at = updated_at; the
\* returned user is the row now stored.
C2_CreateSucceeds ==
    (Finished("create") /\ ~Held(Cur.pre, Cur.email) /\ NoIO(Cur))
        => /\ Cur.res.err = NoErr
           /\ Cur.res.user.name = Cur.name
           /\ Cur.res.user.email = Cur.email
           /\ Cur.res.user.id > 0
           /\ ~HasRow(Cur.pre, Cur.res.user.id)
           /\ Cur.res.user.created_at = Cur.res.user.updated_at
           /\ Cur.res.user \in users

\* C2 witness: a create of an upper-case email succeeded on a non-empty table.
C2_Witness ==
    /\ Finished("create") /\ Cur.res.err = NoErr
    /\ Cur.pre # {} /\ Cur.email = "JOHN@example.com"

\* C3: a CreateUser call with an email some row already holds fails with the
\* "already exists" error (ConflictError) whatever the name, unless the probe
\* itself fails on I/O; the table is left as it was.
C3_CreateConflict ==
    (Finished("create") /\ Held(Cur.pre, Cur.email) /\ NoIO(Cur))
        => /\ Kind(Cur.res.err) = "ConflictError"
           /\ Cur.res.err = ErrExists(Cur.email)
           /\ users = Cur.pre

\* C3 witness: the second create of an email, under another name, got ConflictError.
C3_Witness ==
    /\ Finished("create") /\ Kind(Cur.res.err) = "ConflictError"
    /\ \E u \in Cur.pre : u.email = Cur.email /\ u.name # Cur.name

\* C4: UpdateUser on an id that has no row returns the not-found error for
\* every payload, also one whose email another user holds, and writes nothing.
C4_UpdateMissing ==
    (Finished("update") /\ ~HasRow(Cur.pre, Cur.id) /\ NoIO(Cur))
        => /\ Kind(Cur.res.err) = "NotFoundError"
           /\ Cur.res.err = ErrNotFound(Cur.id)
           /\ users = Cur.pre

\* C4 witness: an update of a missing id with an email another user holds.
C4_Witness ==
    /\ Finished("update") /\ Kind(Cur.res.err) = "NotFoundError"
    /\ Held(Cur.pre, Cur.email)

\* C5 as stated: UpdateUser fails with ConflictError exactly when a row with
\* a different id holds the email.
C5_Original ==
    (Finished("update") /\ NoIO(Cur))
        => (Kind(Cur.res.err) = "ConflictError"
               <=> HeldByOther(Cur.pre, Cur.email, Cur.id))

\* C5 amended: UpdateUser on an id that has a row fails with ConflictError
\* exactly when a row with a different id holds the email, and succeeds
\* otherwise; keeping the user's own email is no conflict.
C5_UpdateConflict ==
    (Finished("update") /\ HasRow(Cur.pre, Cur.id) /\ NoIO(Cur))
        => IF HeldByOther(Cur.pre, Cur.email, Cur.id)
           THEN Kind(Cur.res.err) = "ConflictError" /\ users = Cur.pre
           ELSE Cur.res.err = NoErr /\ Cur.res.user.email = Cur.email

\* C5 witness: an update that kept the user's own email and changed the name succeeded.
C5_Witness ==
    /\ Finished("update") /\ Cur.res.err = NoErr
    /\ HasRow(Cur.pre, Cur.id)
    /\ RowOf(Cur.pre, Cur.id).email = Cur.email
    /\ RowOf(Cur.pre, Cur.id).name # Cur.name
    /\ Cardinality(Cur.pre) > 1

\* The update in Cur changed only the name of an existing user and succeeded.
NameOnlyUpdate ==
    /\ Finished("update") /\ Cur.res.err = NoErr
    /\ HasRow(Cur.pre, Cur.id)
    /\ RowOf(Cur.pre, Cur.id).email = Cur.email
    /\ RowOf(Cur.pre, Cur.id).name # Cur.name

\* C6 as stated: a successful name-only update returns the email unchanged
\* and an updated_at strictly greater than the row's updated_at before.
C6_Original ==
    NameOnlyUpdate
        => /\ Cur.res.user.email = RowOf(Cur.pre, Cur.id).email
           /\ Cur.res.user.updated_at > RowOf(Cur.pre, Cur.id).updated_at

\* C6 amended: a successful name-only update returns the email unchanged and
\* an updated_at that is the storage clock's second at the UPDATE: never
\* less than the row's updated_at before, and greater when the clock had
\* passed that second by the time the call started.
C6_UpdatedAtRefreshed ==
    NameOnlyUpdate
        => /\ Cur.res.user.email = RowOf(Cur.pre, Cur.id).email
           /\ Cur.res.user.name = Cur.name
           /\ Cur.res.user.updated_at >= RowOf(Cur.pre, Cur.id).updated_at
           /\ Cur.res.user.updated_at >= Cur.t0
           /\ Cur.res.user.updated_at <= now
           /\ (Cur.t0 > RowOf(Cur.pre, Cur.id).updated_at
                  => Cur.res.user.updated_at > RowOf(Cur.pre, Cur.id).updated_at)

\* C6 witness: a name-only update in the second the row was last written:
\* updated_at did not move.
C6_Witness ==
    /\ NameOnlyUpdate
    /\ Cur.res.user.updated_at = RowOf(Cur.pre, Cur.id).updated_at

\* C7: GetUserByID on the id a CreateUser just returned, with no call in
\* between, returns a user equal to it in id, name, email, created_at and
\* updated_at (unless the read fails on I/O).
C7_GetAfterCreate ==
    (Finished("get") /\ hist.op = "create" /\ Cur.id = hist.res.user.id /\ NoIO(Cur))
        => /\ Cur.res.err = NoErr
           /\ Cur.res.user = hist.res.user

\* C7 witness: a get right after the create of that id, one clock second
\* after the start of time.
C7_Witness ==
    /\ Finished("get") /\ hist.op = "create" /\ Cur.id = hist.res.user.id
    /\ Cur.res.err = NoErr /\ Cur.res.user.created_at > 0

\* C8: GetUserByID on an id right after DeleteUser of that id succeeded
\* returns the not-found error, and the table holds no row of that id.
C8_GetAfterDelete ==
    (Finished("get") /\ hist.op = "delete" /\ Cur.id = hist.id /\ NoIO(Cur))
        => /\ Kind(Cur.res.err) = "NotFoundError"
           /\ ~HasRow(users, Cur.id)

\* C8 witness: a get right after the successful delete of that id.
C8_Witness ==
    /\ Finished("get") /\ hist.op = "delete" /\ Cur.id = hist.id
    /\ Kind(Cur.res.err) = "NotFoundError"

\* C9: in every state, GetAllUsers has a result and each has as many users
\* as GetUsersCount counts; a count or list call that just returned agrees
\* with the other method evaluated on the table it left.
C9_CountEqualsList ==
    /\ GetAllUsers(users) # {}
    /\ \A s \in GetAllUsers(users) : Len(s) = GetUsersCount(users)
    /\ (Finished("count") /\ Cur.res.err = NoErr)
          => \A s \in GetAllUsers(users) : Len(s) = Cur.res.count
    /\ (Finished("list") /\ Cur.res.err = NoErr)
          => Len(Cur.res.users) = GetUsersCount(users)

\* C9 witness: a list call returned two users of the same name.
C9_Witness ==
    /\ Finished("list") /\ Cur.res.err = NoErr
    /\ Len(Cur.res.users) = 2
    /\ Cur.res.users[1].name = Cur.res.users[2].name

\* The table holds the three initial users and nothing else.
SeededTable(tbl) ==
    /\ Cardinality(tbl) = Len(initialUsers)
    /\ {[Name |-> u.name, Email |-> u.email] : u \in tbl}
          = {initialUsers[i] : i \in 1..Len(initialUsers)}

\* C10: SeedUsers on an empty table (no I/O failure) returns nil and leaves
\* exactly the three initial users; a SeedUsers call right after such a run
\* leaves the table as it was, with three rows, and returns no
\* "already exists" error (nil, unless its count fails on I/O).
C10_SeedIdempotent ==
    /\ (Finished("seed") /\ Cur.pre = {} /\ NoIO(Cur))
          => Cur.res.err = NoErr /\ SeededTable(users)
    /\ (Finished("seed") /\ hist.op = "seed" /\ hist.pre = {})
          => /\ users = Cur.pre
             /\ GetUsersCount(users) = 3
             /\ SeededTable(users)
             /\ NoIO(Cur) => Cur.res.err = NoErr
             /\ Cur.res.err.arg # "user with email '%s' already exists"

\* C10 witness: the second of two seed runs returned nil.
C10_Witness ==
    /\ Finished("seed") /\ hist.op = "seed" /\ hist.pre = {}
    /\ Cur.res.err = NoErr

\* C11 as stated: every finished CreateUser call, whatever the other callers
\* did meanwhile, ended with a user, the "already exists" error
\* (ConflictError) or a QueryError; never with the not-found error.
C11_Original ==
    \A p \in Procs :
        (pc[p] = "idle" /\ call[p].op = "create")
            => Kind(call[p].res.err) \in {"ok", "ConflictError", "QueryError"}

\* C12 as stated: whenever one of the four handlers (get by id, create,
\* update, delete) has written its status, a malformed request got 400, and
\* otherwise a not-found failure of the repository got 404, an email conflict
\* 409 and every other repository failure 500.
C12_Original ==
    \A p \in Procs :
        (resp[p].req # NoReq /\ resp[p].status # 0) =>
            IF BadRequest(resp[p].req) THEN resp[p].status = StatusBadRequest
            ELSE CASE Kind(call[p].res.err) = "NotFoundError" ->
                          resp[p].status = StatusNotFound
                   [] Kind(call[p].res.err) = "ConflictError" ->
                          resp[p].status = StatusConflict
                   [] Kind(call[p].res.err) = "QueryError" ->
                          resp[p].status = StatusInternalServerError
                   [] OTHER -> TRUE

\* C13: in every state reached by CreateUser, UpdateUser, DeleteUser and
\* SeedUsers calls (the storage clock never going back), every row's
\* updated_at is greater than or equal to its created_at.
C13_UpdatedNotBeforeCreated ==
    \A u \in users : u.updated_at >= u.created_at

\* An UpdateUser call has succeeded after the clock advanced: its row's
\* updated_at is later than its created_at, while a row created in the later
\* second has both equal.
C13_Witness ==
    /\ Finished("update") /\ Cur.res.err = NoErr
    /\ Cur.res.user \in users
    /\ Cur.res.user.updated_at > Cur.res.user.created_at
    /\ \E u \in users : u.created_at > 0 /\ u.updated_at = u.created_at

\* C14: a handler is entered, and the process is in its serving phase, only
\* when InitDB has returned nil (DB.Ping and createTables succeeded); when
\* InitDB returned an error (of sql.Open or DB.Ping: ConnectionError, of
\* createTables: SchemaError) the process has exited, no handler was ever
\* entered and no repository method was called.
C14_ServeOnlyInitialized ==
    /\ (main.served \/ main.phase \in {"seed", "serving"}
            \/ \E p \in Procs : resp[p].req # NoReq \/ call[p].op # "none")
          => main.init = "ok"
    /\ InitKind(main.init) \in {"ConnectionError", "SchemaError"}
          => /\ main.phase = "exited"
             /\ ~main.served
             /\ \A p \in Procs : resp[p] = NoResp /\ call[p] = NoCall /\ pc[p] = "idle"
             /\ users = {}

\* After InitDB returned nil and SeedUsers ran, a request was served and
\* answered 200.
C14_Witness ==
    /\ main.init = "ok" /\ main.phase = "serving" /\ main.served
    /\ resp[SeqClient].status = StatusOK

\* C15 as stated: whenever the process has exited after InitDB returned nil,
\* by whatever path (a signal, ListenAndServe returning its error), CloseDB
\* has been called exactly once.
C15_Original ==
    (main.phase = "exited" /\ main.init = "ok") => main.closes = 1

\* C16: when concurrent CreateUser calls have passed the probe with the same
\* unused email, the INSERT of a call succeeds exactly when no row holds the
\* email at that moment, and then leaves exactly one row with it; the INSERT
\* of the other call fails on the UNIQUE index, the table is not changed, and
\* the call returns "failed to create user" (QueryError), not the "already
\* exists" error (ConflictError).
C16_OneInsertWins ==
    [][\A q \in Procs :
          (pc[q] = "c_insert" /\ pc'[q] # "c_insert") =>
              IF Held(users, call[q].email)
              THEN /\ users' = users
                   /\ pc'[q] = "idle"
                   /\ call'[q].res.err = Err("failed to create user: %v", "", "dup")
                   /\ Kind(call'[q].res.err) = "QueryError"
              ELSE /\ pc'[q] = "c_get"
                   /\ call'[q].id = nextId
                   /\ users' = users \cup {InsertRow(nextId, call[q].name,
                                                     call[q].email, now)}
                   /\ Cardinality({u \in users' : SameEmail(u.email, call[q].email)}) = 1
    ]_vars

\* Two CreateUser calls with the same email have both passed the probe and
\* finished: one returned its user, the other the wrapped error of the
\* UNIQUE index, and one row holds the email, the winner's.
C16_Witness ==
    \E p \in Procs : \E q \in Procs :
        /\ p # q
        /\ pc[p] = "idle" /\ call[p].op = "create" /\ pc[q] = "idle" /\ call[q].op = "create"
        /\ call[p].email = call[q].email
        /\ Kind(call[p].res.err) = "QueryError" /\ call[p].res.err.cause = "dup"
        /\ call[q].res.err = NoErr
        /\ {u \in users : SameEmail(u.email, call[q].email)} = {call[q].res.user}

\* C17: of concurrent DeleteUser calls on the same id, the call whose DELETE
\* finds the row succeeds and removes it, and every call that finds no row,
\* at its existence check or (the check having passed) at its DELETE, which
\* then affects zero rows, returns the not-found error and leaves the table
\* as it was; so no two finished DeleteUser calls on one id both succeeded.
C17_OneDeleteWins ==
    [][/\ \A q \in Procs :
            (pc[q] \in {"d_get", "d_exec"} /\ pc'[q] = "idle") =>
                IF HasRow(users, call[q].id)
                THEN /\ pc[q] = "d_exec"
                     /\ call'[q].res.err = NoErr
                     /\ users' = users \ {RowOf(users, call[q].id)}
                     /\ ~HasRow(users', call[q].id)
                ELSE /\ call'[q].res.err = ErrNotFound(call[q].id)
                     /\ Kind(call'[q].res.err) = "NotFoundError"
                     /\ users' = users
       /\ \A p \in Procs : \A q \in Procs :
            (/\ p # q
             /\ pc'[p] = "idle" /\ call'[p].op = "delete"
             /\ pc'[q] = "idle" /\ call'[q].op = "delete"
             /\ call'[p].id = call'[q].id)
                => ~(call'[p].res.err = NoErr /\ call'[q].res.err = NoErr)
    ]_vars

\* Two DeleteUser calls on the same id have finished: one succeeded, the
\* other returned the not-found error, and the row is gone.
C17_Witness ==
    \E p \in Procs : \E q \in Procs :
        /\ p # q
        /\ pc[p] = "idle" /\ call[p].op = "delete" /\ call[p].res.err = NoErr
        /\ pc[q] = "idle" /\ call[q].op = "delete" /\ call[q].id = call[p].id
        /\ call[q].res.err = ErrNotFound(call[q].id)
        /\ ~HasRow(users, call[p].id)

\* The rows of tbl are the first k initial users, with ids in their order.
SeededPrefix(tbl, k) ==
    /\ Cardinality(tbl) = k
    /\ \A j \in 1..k :
          \E u \in tbl : /\ u.name = initialUsers[j].Name
                         /\ u.email = initialUsers[j].Email
                         /\ \A v \in tbl :
                               (\E l \in 1..(j - 1) : v.email = initialUsers[l].Email)
                                   => v.id < u.id

\* C18: a finished SeedUsers call that started on a table with rows left the
\* table as it was; one that started on the empty table created the initial
\* users John Doe, Jane Smith, Alice Johnson in this order: all three when it
\* returned nil, and when it returned an error, none if the count failed, and
\* otherwise the users before the one (number i) whose CreateUser failed,
\* with that one itself if only its re-read failed, and no later one; the
\* error is "failed to seed user <name of number i>: ...".
C18_SeedStopsAtFirstFailure ==
    Finished("seed") =>
        /\ Cur.pre # {} => (users = Cur.pre /\ Cur.i = 0)
        /\ Cur.pre = {} =>
              /\ Cur.res.err = NoErr => SeededPrefix(users, Len(initialUsers))
              /\ (Cur.res.err # NoErr /\ Cur.i = 0) =>
                    (users = {} /\ Cur.res.err.msg = "failed to count users: %v")
              /\ (Cur.res.err # NoErr /\ Cur.i > 0) =>
                    /\ Cur.res.err.msg = "failed to seed user %s: %v"
                    /\ Cur.name = initialUsers[Cur.i].Name
                    /\ IF Cur.res.err.arg = "failed to get user: %v"
                       THEN SeededPrefix(users, Cur.i)
                       ELSE SeededPrefix(users, Cur.i - 1)

\* SeedUsers on the empty table failed at its second user: John Doe is in the
\* table, Jane Smith and Alice Johnson are not.
C18_Witness ==
    /\ Finished("seed") /\ Cur.pre = {}
    /\ Cur.res.err # NoErr /\ Cur.i = 2
    /\ Cur.res.err.arg = "failed to create user: %v"
    /\ {u.name : u \in users} = {"John Doe"}

\* C19: a successful UpdateUser call leaves the table with the same ids;
\* every row other than the one of its id is as it was before the call, and
\* the row of its id keeps its id and created_at: only its name, email and
\* updated_at can differ.
C19_UpdateTouchesOneRow ==
    (Finished("update") /\ Cur.res.err = NoErr) =>
        /\ HasRow(Cur.pre, Cur.id)
        /\ {u.id : u \in users} = {u.id : u \in Cur.pre}
        /\ Cardinality(users) = Cardinality(Cur.pre)
        /\ \A u \in Cur.pre : u.id # Cur.id => u \in users
        /\ RowOf(users, Cur.id).created_at = RowOf(Cur.pre, Cur.id).created_at
        /\ Cur.res.user = RowOf(users, Cur.id)
        /\ Cur.res.user.id = Cur.id

\* An UpdateUser call on a table of two rows succeeded and changed the name,
\* the email and the updated_at of its row.
C19_Witness ==
    /\ Finished("update") /\ Cur.res.err = NoErr
    /\ Cardinality(Cur.pre) = 2
    /\ RowOf(users, Cur.id).name # RowOf(Cur.pre, Cur.id).name
    /\ RowOf(users, Cur.id).email # RowOf(Cur.pre, Cur.id).email
    /\ RowOf(users, Cur.id).updated_at > RowOf(Cur.pre, Cur.id).updated_at

\* The methods that only read.
ReadOps == {"get", "list", "count"}

\* C20: when a call of the repository has returned the "already exists"
\* error (ConflictError) or the not-found error, the table is exactly the
\* table the call started from; and while a GetUserByID, GetAllUsers or
\* GetUsersCount call runs and when it has returned, whatever its result,
\* the table is the table it started from.
C20_ErrorsAndReadsWriteNothing ==
    /\ (pc[SeqClient] = "idle" /\ Cur.op # "none"
            /\ Kind(Cur.res.err) \in {"ConflictError", "NotFoundError"})
          => users = Cur.pre
    /\ Cur.op \in ReadOps => users = Cur.pre

\* An UpdateUser call with a new name and the email of another user has
\* returned the "already exists" error on a table of two rows, which it left
\* as it was.
C20_Witness ==
    /\ Finished("update") /\ Kind(Cur.res.err) = "ConflictError"
    /\ Cardinality(Cur.pre) = 2
    /\ HasRow(Cur.pre, Cur.id) /\ RowOf(Cur.pre, Cur.id).name # Cur.name
    /\ users = Cur.pre

\* C21: an id that has been assigned and has no row (its row was deleted)
\* never has a row again, whatever the concurrent callers do: a finished
\* successful DeleteUser leaves no row of its id; a new row always gets the
\* AUTO_INCREMENT counter's present value, which is above every id assigned
\* before, and the counter never goes down; the UPDATE of an UpdateUser call
\* whose existence check passed and whose row is gone by then writes nothing,
\* and the call's re-read then returns the not-found error.
C21_DeletedIdStaysGone ==
    [][/\ \A i \in 1..(nextId - 1) : ~HasRow(users, i) => ~HasRow(users', i)
       /\ nextId' >= nextId
       /\ \A u \in users' :
             ~HasRow(users, u.id) => (u.id = nextId /\ nextId' = nextId + 1)
       /\ \A p \in Procs :
             (pc'[p] = "idle" /\ call'[p].op = "delete" /\ call'[p].res.err = NoErr)
                 => ~HasRow(users', call'[p].id)
       /\ \A p \in Procs :
             (pc[p] = "u_exec" /\ pc'[p] # "u_exec" /\ ~HasRow(users, call[p].id))
                 => (users' = users /\ pc'[p] = "u_reget")
       /\ \A p \in Procs :
             (pc[p] = "u_reget" /\ pc'[p] = "idle" /\ ~HasRow(users, call[p].id))
                 => /\ call'[p].res.err = ErrNotFound(call[p].id)
                    /\ Kind(call'[p].res.err) = "NotFoundError"
                    /\ users' = users
    ]_vars

\* An UpdateUser call passed its existence check and has executed its UPDATE
\* while the other caller's DeleteUser on the same id had succeeded: there is
\* no row of the id.
C21_Witness ==
    \E p \in Procs : \E q \in Procs :
        /\ p # q
        /\ pc[p] = "u_reget" /\ call[p].op = "update"
        /\ pc[q] = "idle" /\ call[q].op = "delete" /\ call[q].res.err = NoErr
        /\ call[q].id = call[p].id
        /\ ~HasRow(users, call[p].id)

=============================================================================
